---------------------------- MODULE Spec2Model ----------------------------
(***************************************************************************)
(* Model of the honeypot webhook service (src/main.py).                    *)
(*                                                                         *)
(* Python strings are modelled as sequences of one-character strings, so   *)
(* that str.lower(), str.strip(), the substring test `t in s`, len() and   *)
(* the four regular expressions of INTEL_PATTERNS are computed rather than *)
(* assumed.  The asyncio event loop runs one coroutine at a time, so every *)
(* action below is the code of handle_webhook between two await points.    *)
(***************************************************************************)
EXTENDS Integers, Sequences, FiniteSets, TLC

(***************************************************************************)
(* Strings                                                                 *)
(***************************************************************************)
UpperAlpha ==
  <<"A","B","C","D","E","F","G","H","I","J","K","L","M",
    "N","O","P","Q","R","S","T","U","V","W","X","Y","Z">>

LowerAlpha ==
  <<"a","b","c","d","e","f","g","h","i","j","k","l","m",
    "n","o","p","q","r","s","t","u","v","w","x","y","z">>

Range(f) == {f[i] : i \in DOMAIN f}

SetMin(S) == CHOOSE x \in S : \A y \in S : x <= y

SetMax(S) == CHOOSE x \in S : \A y \in S : x >= y

Letters == Range(UpperAlpha) \cup Range(LowerAlpha)

Digits == {"0","1","2","3","4","5","6","7","8","9"}

\* \w of the re module, over the ASCII alphabet
WordCh == Letters \cup Digits \cup {"_"}

\* \s of the re module
Space == {" ", "\t", "\n", "\r"}

HexCh == Digits \cup {"a","b","c","d","e","f","A","B","C","D","E","F"}

ToLowerCh(c) ==
  IF \E i \in 1..26 : UpperAlpha[i] = c
  THEN LowerAlpha[CHOOSE i \in 1..26 : UpperAlpha[i] = c]
  ELSE c

\* str.lower()
lower(s) == [i \in 1..Len(s) |-> ToLowerCh(s[i])]

\* str.strip()
strip(s) ==
  LET keep == {i \in 1..Len(s) : s[i] \notin Space}
  IN  IF keep = {} THEN <<>> ELSE SubSeq(s, SetMin(keep), SetMax(keep))

\* the Python test `t in s` on two strings
Contains(t, s) ==
  \E i \in 0..(Len(s) - Len(t)) : SubSeq(s, i + 1, i + Len(t)) = t

\* the Python test `x in lst` on a list
InList(x, lst) == \E i \in 1..Len(lst) : lst[i] = x

\* s[i:i+len(lit)] == lit
LitAt(s, i, lit) ==
  /\ i >= 1
  /\ i + Len(lit) - 1 <= Len(s)
  /\ SubSeq(s, i, i + Len(lit) - 1) = lit

\* last index j >= i - 1 such that s[i..j] lies in cls (a greedy cls*)
RunEnd(s, i, cls) ==
  LET stops == {j \in i..Len(s) : s[j] \notin cls}
  IN  IF stops = {} THEN Len(s) ELSE SetMin(stops) - 1

(***************************************************************************)
(* INTEL_PATTERNS: for each pattern, the index of the last character of    *)
(* the match that re finds starting at index i of s, or 0 when the pattern *)
(* does not match at i.                                                    *)
(***************************************************************************)
UpiCls == Letters \cup Digits \cup {".", "-", "_"}

\* [a-zA-Z0-9.\-_]{2,256}@[a-zA-Z]{2,64}
UpiMatchEnd(s, i) ==
  LET e  == RunEnd(s, i, UpiCls)
      le == RunEnd(s, e + 2, Letters)
  IN  IF /\ e - i + 1 >= 2
         /\ e - i + 1 <= 256
         /\ LitAt(s, e + 1, <<"@">>)
         /\ le - (e + 1) >= 2
      THEN IF le - (e + 1) > 64 THEN e + 1 + 64 ELSE le
      ELSE 0

\* \b\d{9,18}\b
BankMatchEnd(s, i) ==
  LET e == RunEnd(s, i, Digits)
  IN  IF /\ s[i] \in Digits
         /\ (i = 1 \/ s[i - 1] \notin WordCh)
         /\ e - i + 1 >= 9
         /\ e - i + 1 <= 18
         /\ (e = Len(s) \/ s[e + 1] \notin WordCh)
      THEN e
      ELSE 0

HostCh == WordCh \cup {"-", "."}

PathCh ==
  WordCh \cup {"-", ".", "_", "~", ":", "/", "?", "#", "[", "]", "@", "!",
               "$", "&", "'", "(", ")", "*", "+", ",", ";", "="}

\* (?:[-\w.]|(?:%[\da-fA-F]{2}))* from index p: index of the last character taken
RECURSIVE HostEnd(_, _)
HostEnd(s, p) ==
  IF p <= Len(s) /\ s[p] \in HostCh
  THEN HostEnd(s, p + 1)
  ELSE IF /\ p + 2 <= Len(s)
          /\ s[p] = "%"
          /\ s[p + 1] \in HexCh
          /\ s[p + 2] \in HexCh
       THEN HostEnd(s, p + 3)
       ELSE p - 1

\* https?://(?:[-\w.]|(?:%[\da-fA-F]{2}))+(?:/[-\w._~:/?#[\]@!$&'()*+,;=]*)?
LinkMatchEnd(s, i) ==
  LET q  == IF LitAt(s, i, <<"h","t","t","p","s",":","/","/">>) THEN i + 8
            ELSE IF LitAt(s, i, <<"h","t","t","p",":","/","/">>) THEN i + 7
            ELSE 0
      he == HostEnd(s, q)
  IN  IF q = 0 \/ he < q
      THEN 0
      ELSE IF LitAt(s, he + 1, <<"/">>)
           THEN RunEnd(s, he + 2, PathCh)
           ELSE he

\* [6-9]\d{9} at index p
PhoneCore(s, p) ==
  /\ p >= 1
  /\ p + 9 <= Len(s)
  /\ s[p] \in {"6", "7", "8", "9"}
  /\ \A k \in 1..9 : s[p + k] \in Digits

\* (?:\+91[\-\s]?)?[6-9]\d{9}
PhoneMatchEnd(s, i) ==
  IF LitAt(s, i, <<"+","9","1">>)
  THEN IF i + 3 <= Len(s) /\ s[i + 3] \in ({"-"} \cup Space) /\ PhoneCore(s, i + 4)
       THEN i + 13
       ELSE IF PhoneCore(s, i + 3) THEN i + 12 ELSE 0
  ELSE IF PhoneCore(s, i) THEN i + 9 ELSE 0

\* the keys of INTEL_PATTERNS, in the order the dict literal lists them
PatternKeys == <<"upiIds", "bankAccounts", "phishingLinks", "phoneNumbers">>

INTEL_PATTERNS(category, s, i) ==
  CASE category = "upiIds"        -> UpiMatchEnd(s, i)
    [] category = "bankAccounts"  -> BankMatchEnd(s, i)
    [] category = "phishingLinks" -> LinkMatchEnd(s, i)
    [] category = "phoneNumbers"  -> PhoneMatchEnd(s, i)

\* re.search(INTEL_PATTERNS[category], s) is not None
re_search(category, s) ==
  \E i \in 1..Len(s) : INTEL_PATTERNS(category, s, i) # 0

\* re.findall(INTEL_PATTERNS[category], s) scanning from index i:
\* leftmost, non-overlapping matches, each the whole matched text
RECURSIVE FindFrom(_, _, _)
FindFrom(category, s, i) ==
  IF i > Len(s)
  THEN <<>>
  ELSE LET e == INTEL_PATTERNS(category, s, i)
       IN  IF e = 0
           THEN FindFrom(category, s, i + 1)
           ELSE <<SubSeq(s, i, e)>> \o FindFrom(category, s, e + 1)

re_findall(category, s) == FindFrom(category, s, 1)

(***************************************************************************)
(* Module-level data of src/main.py                                        *)
(***************************************************************************)
SCAM_TRIGGERS ==
 <<
  \* block
  <<"b","l","o","c","k">>,
  \* suspend
  <<"s","u","s","p","e","n","d">>,
  \* expiry
  <<"e","x","p","i","r","y">>,
  \* expire
  <<"e","x","p","i","r","e">>,
  \* immediate
  <<"i","m","m","e","d","i","a","t","e">>,
  \* urgent
  <<"u","r","g","e","n","t">>,
  \* 24 hours
  <<"2","4"," ","h","o","u","r","s">>,
  \* terminate
  <<"t","e","r","m","i","n","a","t","e">>,
  \* disconnect
  <<"d","i","s","c","o","n","n","e","c","t">>,
  \* lapse
  <<"l","a","p","s","e">>,
  \* deactivate
  <<"d","e","a","c","t","i","v","a","t","e">>,
  \* ban
  <<"b","a","n">>,
  \* invalid
  <<"i","n","v","a","l","i","d">>,
  \* alert
  <<"a","l","e","r","t">>,
  \* attention
  <<"a","t","t","e","n","t","i","o","n">>,
  \* warn
  <<"w","a","r","n">>,
  \* kyc
  <<"k","y","c">>,
  \* pan
  <<"p","a","n">>,
  \* pan card
  <<"p","a","n"," ","c","a","r","d">>,
  \* aadhaar
  <<"a","a","d","h","a","a","r">>,
  \* adhar
  <<"a","d","h","a","r">>,
  \* update
  <<"u","p","d","a","t","e">>,
  \* verify
  <<"v","e","r","i","f","y">>,
  \* verification
  <<"v","e","r","i","f","i","c","a","t","i","o","n">>,
  \* account
  <<"a","c","c","o","u","n","t">>,
  \* bank
  <<"b","a","n","k">>,
  \* sbi
  <<"s","b","i">>,
  \* hdfc
  <<"h","d","f","c">>,
  \* icici
  <<"i","c","i","c","i">>,
  \* axis
  <<"a","x","i","s">>,
  \* pnb
  <<"p","n","b">>,
  \* atm
  <<"a","t","m">>,
  \* debit
  <<"d","e","b","i","t">>,
  \* credit
  <<"c","r","e","d","i","t">>,
  \* wallet
  <<"w","a","l","l","e","t">>,
  \* refund
  <<"r","e","f","u","n","d">>,
  \* cashback
  <<"c","a","s","h","b","a","c","k">>,
  \* bonus
  <<"b","o","n","u","s">>,
  \* credited
  <<"c","r","e","d","i","t","e","d">>,
  \* debited
  <<"d","e","b","i","t","e","d">>,
  \* reversal
  <<"r","e","v","e","r","s","a","l">>,
  \* unpaid
  <<"u","n","p","a","i","d">>,
  \* due
  <<"d","u","e">>,
  \* overdue
  <<"o","v","e","r","d","u","e">>,
  \* statement
  <<"s","t","a","t","e","m","e","n","t">>,
  \* charge
  <<"c","h","a","r","g","e">>,
  \* deducted
  <<"d","e","d","u","c","t","e","d">>,
  \* bill
  <<"b","i","l","l">>,
  \* invoice
  <<"i","n","v","o","i","c","e">>,
  \* otp
  <<"o","t","p">>,
  \* pin
  <<"p","i","n">>,
  \* password
  <<"p","a","s","s","w","o","r","d">>,
  \* cvv
  <<"c","v","v">>,
  \* m-pin
  <<"m","-","p","i","n">>,
  \* mpin
  <<"m","p","i","n">>,
  \* login
  <<"l","o","g","i","n">>,
  \* credential
  <<"c","r","e","d","e","n","t","i","a","l">>,
  \* sign in
  <<"s","i","g","n"," ","i","n">>,
  \* log in
  <<"l","o","g"," ","i","n">>,
  \* reset
  <<"r","e","s","e","t">>,
  \* code
  <<"c","o","d","e">>,
  \* auth
  <<"a","u","t","h">>,
  \* lottery
  <<"l","o","t","t","e","r","y">>,
  \* winner
  <<"w","i","n","n","e","r">>,
  \* won
  <<"w","o","n">>,
  \* prize
  <<"p","r","i","z","e">>,
  \* gift
  <<"g","i","f","t">>,
  \* lucky
  <<"l","u","c","k","y">>,
  \* congratulations
  <<"c","o","n","g","r","a","t","u","l","a","t","i","o","n","s">>,
  \* crore
  <<"c","r","o","r","e">>,
  \* lakh
  <<"l","a","k","h">>,
  \* million
  <<"m","i","l","l","i","o","n">>,
  \* dollar
  <<"d","o","l","l","a","r">>,
  \* job
  <<"j","o","b">>,
  \* hiring
  <<"h","i","r","i","n","g">>,
  \* salary
  <<"s","a","l","a","r","y">>,
  \* income
  <<"i","n","c","o","m","e">>,
  \* investment
  <<"i","n","v","e","s","t","m","e","n","t">>,
  \* profit
  <<"p","r","o","f","i","t">>,
  \* loan
  <<"l","o","a","n">>,
  \* approved
  <<"a","p","p","r","o","v","e","d">>,
  \* interest
  <<"i","n","t","e","r","e","s","t">>,
  \* offer
  <<"o","f","f","e","r">>,
  \* discount
  <<"d","i","s","c","o","u","n","t">>,
  \* free
  <<"f","r","e","e">>,
  \* claim
  <<"c","l","a","i","m">>,
  \* police
  <<"p","o","l","i","c","e">>,
  \* cbi
  <<"c","b","i">>,
  \* rbi
  <<"r","b","i">>,
  \* court
  <<"c","o","u","r","t">>,
  \* case
  <<"c","a","s","e">>,
  \* fir
  <<"f","i","r">>,
  \* jail
  <<"j","a","i","l">>,
  \* arrest
  <<"a","r","r","e","s","t">>,
  \* warrant
  <<"w","a","r","r","a","n","t">>,
  \* legal
  <<"l","e","g","a","l">>,
  \* tax
  <<"t","a","x">>,
  \* income tax
  <<"i","n","c","o","m","e"," ","t","a","x">>,
  \* customs
  <<"c","u","s","t","o","m","s">>,
  \* seized
  <<"s","e","i","z","e","d">>,
  \* penalty
  <<"p","e","n","a","l","t","y">>,
  \* fine
  <<"f","i","n","e">>,
  \* illegal
  <<"i","l","l","e","g","a","l">>,
  \* department
  <<"d","e","p","a","r","t","m","e","n","t">>,
  \* officer
  <<"o","f","f","i","c","e","r">>,
  \* inspector
  <<"i","n","s","p","e","c","t","o","r">>,
  \* cyber
  <<"c","y","b","e","r">>,
  \* click
  <<"c","l","i","c","k">>,
  \* link
  <<"l","i","n","k">>,
  \* visit
  <<"v","i","s","i","t">>,
  \* download
  <<"d","o","w","n","l","o","a","d">>,
  \* install
  <<"i","n","s","t","a","l","l">>,
  \* apk
  <<"a","p","k">>,
  \* app
  <<"a","p","p">>,
  \* support
  <<"s","u","p","p","o","r","t">>,
  \* customer care
  <<"c","u","s","t","o","m","e","r"," ","c","a","r","e">>,
  \* helpline
  <<"h","e","l","p","l","i","n","e">>,
  \* contact
  <<"c","o","n","t","a","c","t">>,
  \* call
  <<"c","a","l","l">>,
  \* whatsapp
  <<"w","h","a","t","s","a","p","p">>,
  \* message
  <<"m","e","s","s","a","g","e">>,
  \* sms
  <<"s","m","s">>,
  \* bit.ly
  <<"b","i","t",".","l","y">>,
  \* tinyurl
  <<"t","i","n","y","u","r","l">>
 >>

FALLBACK_REPLIES ==
 <<
  \* Beta, my line is breaking up. Can you say that loudly?
  <<"B","e","t","a",","," ","m","y"," ","l","i","n","e"," ","i","s"," ","b","r","e","a","k","i","n","g"," ","u","p","."," ","C","a","n"," ","y","o","u"," ","s","a","y"," ","t","h","a","t"," ","l","o","u","d","l","y","?">>,
  \* Wait, let me find my reading glasses. Hold on...
  <<"W","a","i","t",","," ","l","e","t"," ","m","e"," ","f","i","n","d"," ","m","y"," ","r","e","a","d","i","n","g"," ","g","l","a","s","s","e","s","."," ","H","o","l","d"," ","o","n",".",".",".">>,
  \* I am pressing the button but nothing is happening. Is it the green one?
  <<"I"," ","a","m"," ","p","r","e","s","s","i","n","g"," ","t","h","e"," ","b","u","t","t","o","n"," ","b","u","t"," ","n","o","t","h","i","n","g"," ","i","s"," ","h","a","p","p","e","n","i","n","g","."," ","I","s"," ","i","t"," ","t","h","e"," ","g","r","e","e","n"," ","o","n","e","?">>,
  \* Sorry, my grandson is calling on the other line. One minute.
  <<"S","o","r","r","y",","," ","m","y"," ","g","r","a","n","d","s","o","n"," ","i","s"," ","c","a","l","l","i","n","g"," ","o","n"," ","t","h","e"," ","o","t","h","e","r"," ","l","i","n","e","."," ","O","n","e"," ","m","i","n","u","t","e",".">>,
  \* Which bank did you say? SBI or HDFC? I have accounts in both.
  <<"W","h","i","c","h"," ","b","a","n","k"," ","d","i","d"," ","y","o","u"," ","s","a","y","?"," ","S","B","I"," ","o","r"," ","H","D","F","C","?"," ","I"," ","h","a","v","e"," ","a","c","c","o","u","n","t","s"," ","i","n"," ","b","o","t","h",".">>,
  \* My screen is very dark. I cannot see the OTP. How do I make it bright?
  <<"M","y"," ","s","c","r","e","e","n"," ","i","s"," ","v","e","r","y"," ","d","a","r","k","."," ","I"," ","c","a","n","n","o","t"," ","s","e","e"," ","t","h","e"," ","O","T","P","."," ","H","o","w"," ","d","o"," ","I"," ","m","a","k","e"," ","i","t"," ","b","r","i","g","h","t","?">>,
  \* Are you from the main branch? I went there yesterday.
  <<"A","r","e"," ","y","o","u"," ","f","r","o","m"," ","t","h","e"," ","m","a","i","n"," ","b","r","a","n","c","h","?"," ","I"," ","w","e","n","t"," ","t","h","e","r","e"," ","y","e","s","t","e","r","d","a","y",".">>,
  \* Hello? Are you still there? I think the signal is lost.
  <<"H","e","l","l","o","?"," ","A","r","e"," ","y","o","u"," ","s","t","i","l","l"," ","t","h","e","r","e","?"," ","I"," ","t","h","i","n","k"," ","t","h","e"," ","s","i","g","n","a","l"," ","i","s"," ","l","o","s","t",".">>,
  \* My battery is showing low red line. Let me find the charger.
  <<"M","y"," ","b","a","t","t","e","r","y"," ","i","s"," ","s","h","o","w","i","n","g"," ","l","o","w"," ","r","e","d"," ","l","i","n","e","."," ","L","e","t"," ","m","e"," ","f","i","n","d"," ","t","h","e"," ","c","h","a","r","g","e","r",".">>,
  \* Is this regarding the pension scheme or the savings account?
  <<"I","s"," ","t","h","i","s"," ","r","e","g","a","r","d","i","n","g"," ","t","h","e"," ","p","e","n","s","i","o","n"," ","s","c","h","e","m","e"," ","o","r"," ","t","h","e"," ","s","a","v","i","n","g","s"," ","a","c","c","o","u","n","t","?">>,
  \* I cannot hear you clearly, there is a lot of static.
  <<"I"," ","c","a","n","n","o","t"," ","h","e","a","r"," ","y","o","u"," ","c","l","e","a","r","l","y",","," ","t","h","e","r","e"," ","i","s"," ","a"," ","l","o","t"," ","o","f"," ","s","t","a","t","i","c",".">>,
  \* Can you call me back on the landline? This mobile is acting up.
  <<"C","a","n"," ","y","o","u"," ","c","a","l","l"," ","m","e"," ","b","a","c","k"," ","o","n"," ","t","h","e"," ","l","a","n","d","l","i","n","e","?"," ","T","h","i","s"," ","m","o","b","i","l","e"," ","i","s"," ","a","c","t","i","n","g"," ","u","p",".">>,
  \* My spectacles are in the other room. Just a moment.
  <<"M","y"," ","s","p","e","c","t","a","c","l","e","s"," ","a","r","e"," ","i","n"," ","t","h","e"," ","o","t","h","e","r"," ","r","o","o","m","."," ","J","u","s","t"," ","a"," ","m","o","m","e","n","t",".">>,
  \* Why are you asking for this code? Is it safe?
  <<"W","h","y"," ","a","r","e"," ","y","o","u"," ","a","s","k","i","n","g"," ","f","o","r"," ","t","h","i","s"," ","c","o","d","e","?"," ","I","s"," ","i","t"," ","s","a","f","e","?">>,
  \* I typed the number but it says 'Invalid Input'. What to do?
  <<"I"," ","t","y","p","e","d"," ","t","h","e"," ","n","u","m","b","e","r"," ","b","u","t"," ","i","t"," ","s","a","y","s"," ","'","I","n","v","a","l","i","d"," ","I","n","p","u","t","'","."," ","W","h","a","t"," ","t","o"," ","d","o","?">>,
  \* Wait, the milk is boiling over! Hold on one second.
  <<"W","a","i","t",","," ","t","h","e"," ","m","i","l","k"," ","i","s"," ","b","o","i","l","i","n","g"," ","o","v","e","r","!"," ","H","o","l","d"," ","o","n"," ","o","n","e"," ","s","e","c","o","n","d",".">>,
  \* I am an old woman, please be patient with me.
  <<"I"," ","a","m"," ","a","n"," ","o","l","d"," ","w","o","m","a","n",","," ","p","l","e","a","s","e"," ","b","e"," ","p","a","t","i","e","n","t"," ","w","i","t","h"," ","m","e",".">>,
  \* Did you say your name was Rahul or Ramesh?
  <<"D","i","d"," ","y","o","u"," ","s","a","y"," ","y","o","u","r"," ","n","a","m","e"," ","w","a","s"," ","R","a","h","u","l"," ","o","r"," ","R","a","m","e","s","h","?">>,
  \* I don't have my passbook with me right now.
  <<"I"," ","d","o","n","'","t"," ","h","a","v","e"," ","m","y"," ","p","a","s","s","b","o","o","k"," ","w","i","t","h"," ","m","e"," ","r","i","g","h","t"," ","n","o","w",".">>,
  \* Can I go to the ATM and do this? It is near my house.
  <<"C","a","n"," ","I"," ","g","o"," ","t","o"," ","t","h","e"," ","A","T","M"," ","a","n","d"," ","d","o"," ","t","h","i","s","?"," ","I","t"," ","i","s"," ","n","e","a","r"," ","m","y"," ","h","o","u","s","e",".">>,
  \* Beta, the pressure cooker is whistling, I cannot hear you.
  <<"B","e","t","a",","," ","t","h","e"," ","p","r","e","s","s","u","r","e"," ","c","o","o","k","e","r"," ","i","s"," ","w","h","i","s","t","l","i","n","g",","," ","I"," ","c","a","n","n","o","t"," ","h","e","a","r"," ","y","o","u",".">>,
  \* Is this Mr. Sharma from the LIC office?
  <<"I","s"," ","t","h","i","s"," ","M","r","."," ","S","h","a","r","m","a"," ","f","r","o","m"," ","t","h","e"," ","L","I","C"," ","o","f","f","i","c","e","?">>,
  \* My hands are shaking, I pressed the wrong button I think.
  <<"M","y"," ","h","a","n","d","s"," ","a","r","e"," ","s","h","a","k","i","n","g",","," ","I"," ","p","r","e","s","s","e","d"," ","t","h","e"," ","w","r","o","n","g"," ","b","u","t","t","o","n"," ","I"," ","t","h","i","n","k",".">>,
  \* Hold on, my neighbor Mrs. Gupta is at the door.
  <<"H","o","l","d"," ","o","n",","," ","m","y"," ","n","e","i","g","h","b","o","r"," ","M","r","s","."," ","G","u","p","t","a"," ","i","s"," ","a","t"," ","t","h","e"," ","d","o","o","r",".">>,
  \* I am trying to find the message but my inbox is full.
  <<"I"," ","a","m"," ","t","r","y","i","n","g"," ","t","o"," ","f","i","n","d"," ","t","h","e"," ","m","e","s","s","a","g","e"," ","b","u","t"," ","m","y"," ","i","n","b","o","x"," ","i","s"," ","f","u","l","l",".">>,
  \* Does this require an internet connection? My wifi is off.
  <<"D","o","e","s"," ","t","h","i","s"," ","r","e","q","u","i","r","e"," ","a","n"," ","i","n","t","e","r","n","e","t"," ","c","o","n","n","e","c","t","i","o","n","?"," ","M","y"," ","w","i","f","i"," ","i","s"," ","o","f","f",".">>,
  \* Please speak slowly, my hearing aid is not working well today.
  <<"P","l","e","a","s","e"," ","s","p","e","a","k"," ","s","l","o","w","l","y",","," ","m","y"," ","h","e","a","r","i","n","g"," ","a","i","d"," ","i","s"," ","n","o","t"," ","w","o","r","k","i","n","g"," ","w","e","l","l"," ","t","o","d","a","y",".">>,
  \* Are you calling about the fixed deposit maturity?
  <<"A","r","e"," ","y","o","u"," ","c","a","l","l","i","n","g"," ","a","b","o","u","t"," ","t","h","e"," ","f","i","x","e","d"," ","d","e","p","o","s","i","t"," ","m","a","t","u","r","i","t","y","?">>,
  \* I accidentally deleted the message. Can you send it again?
  <<"I"," ","a","c","c","i","d","e","n","t","a","l","l","y"," ","d","e","l","e","t","e","d"," ","t","h","e"," ","m","e","s","s","a","g","e","."," ","C","a","n"," ","y","o","u"," ","s","e","n","d"," ","i","t"," ","a","g","a","i","n","?">>,
  \* My phone is very hot, I think it might explode.
  <<"M","y"," ","p","h","o","n","e"," ","i","s"," ","v","e","r","y"," ","h","o","t",","," ","I"," ","t","h","i","n","k"," ","i","t"," ","m","i","g","h","t"," ","e","x","p","l","o","d","e",".">>,
  \* Do I need to go to the bank for this?
  <<"D","o"," ","I"," ","n","e","e","d"," ","t","o"," ","g","o"," ","t","o"," ","t","h","e"," ","b","a","n","k"," ","f","o","r"," ","t","h","i","s","?">>,
  \* My son told me not to share numbers with strangers.
  <<"M","y"," ","s","o","n"," ","t","o","l","d"," ","m","e"," ","n","o","t"," ","t","o"," ","s","h","a","r","e"," ","n","u","m","b","e","r","s"," ","w","i","t","h"," ","s","t","r","a","n","g","e","r","s",".">>,
  \* Is this about the electricity bill? I already paid it.
  <<"I","s"," ","t","h","i","s"," ","a","b","o","u","t"," ","t","h","e"," ","e","l","e","c","t","r","i","c","i","t","y"," ","b","i","l","l","?"," ","I"," ","a","l","r","e","a","d","y"," ","p","a","i","d"," ","i","t",".">>,
  \* Wait, I am looking for a pen to write this down.
  <<"W","a","i","t",","," ","I"," ","a","m"," ","l","o","o","k","i","n","g"," ","f","o","r"," ","a"," ","p","e","n"," ","t","o"," ","w","r","i","t","e"," ","t","h","i","s"," ","d","o","w","n",".">>,
  \* The screen is spinning round and round. What does that mean?
  <<"T","h","e"," ","s","c","r","e","e","n"," ","i","s"," ","s","p","i","n","n","i","n","g"," ","r","o","u","n","d"," ","a","n","d"," ","r","o","u","n","d","."," ","W","h","a","t"," ","d","o","e","s"," ","t","h","a","t"," ","m","e","a","n","?">>,
  \* Can you talk to my husband? He handles the money.
  <<"C","a","n"," ","y","o","u"," ","t","a","l","k"," ","t","o"," ","m","y"," ","h","u","s","b","a","n","d","?"," ","H","e"," ","h","a","n","d","l","e","s"," ","t","h","e"," ","m","o","n","e","y",".">>,
  \* I am in the middle of my evening prayers. Can you wait?
  <<"I"," ","a","m"," ","i","n"," ","t","h","e"," ","m","i","d","d","l","e"," ","o","f"," ","m","y"," ","e","v","e","n","i","n","g"," ","p","r","a","y","e","r","s","."," ","C","a","n"," ","y","o","u"," ","w","a","i","t","?">>,
  \* My phone display is cracked, I cannot read the numbers.
  <<"M","y"," ","p","h","o","n","e"," ","d","i","s","p","l","a","y"," ","i","s"," ","c","r","a","c","k","e","d",","," ","I"," ","c","a","n","n","o","t"," ","r","e","a","d"," ","t","h","e"," ","n","u","m","b","e","r","s",".">>,
  \* Are you the same person who called yesterday about the lottery?
  <<"A","r","e"," ","y","o","u"," ","t","h","e"," ","s","a","m","e"," ","p","e","r","s","o","n"," ","w","h","o"," ","c","a","l","l","e","d"," ","y","e","s","t","e","r","d","a","y"," ","a","b","o","u","t"," ","t","h","e"," ","l","o","t","t","e","r","y","?">>,
  \* I don't remember my PIN number. Is it written on the card?
  <<"I"," ","d","o","n","'","t"," ","r","e","m","e","m","b","e","r"," ","m","y"," ","P","I","N"," ","n","u","m","b","e","r","."," ","I","s"," ","i","t"," ","w","r","i","t","t","e","n"," ","o","n"," ","t","h","e"," ","c","a","r","d","?">>,
  \* Wait, the cat just jumped on the table!
  <<"W","a","i","t",","," ","t","h","e"," ","c","a","t"," ","j","u","s","t"," ","j","u","m","p","e","d"," ","o","n"," ","t","h","e"," ","t","a","b","l","e","!">>,
  \* Can I do this tomorrow morning? It is very late.
  <<"C","a","n"," ","I"," ","d","o"," ","t","h","i","s"," ","t","o","m","o","r","r","o","w"," ","m","o","r","n","i","n","g","?"," ","I","t"," ","i","s"," ","v","e","r","y"," ","l","a","t","e",".">>,
  \* My phone is running out of balance.
  <<"M","y"," ","p","h","o","n","e"," ","i","s"," ","r","u","n","n","i","n","g"," ","o","u","t"," ","o","f"," ","b","a","l","a","n","c","e",".">>,
  \* Is there a charge for this service?
  <<"I","s"," ","t","h","e","r","e"," ","a"," ","c","h","a","r","g","e"," ","f","o","r"," ","t","h","i","s"," ","s","e","r","v","i","c","e","?">>,
  \* I think I received a message from the police too.
  <<"I"," ","t","h","i","n","k"," ","I"," ","r","e","c","e","i","v","e","d"," ","a"," ","m","e","s","s","a","g","e"," ","f","r","o","m"," ","t","h","e"," ","p","o","l","i","c","e"," ","t","o","o",".">>,
  \* Why is the bank calling from a personal number?
  <<"W","h","y"," ","i","s"," ","t","h","e"," ","b","a","n","k"," ","c","a","l","l","i","n","g"," ","f","r","o","m"," ","a"," ","p","e","r","s","o","n","a","l"," ","n","u","m","b","e","r","?">>,
  \* Let me put on my speakerphone.
  <<"L","e","t"," ","m","e"," ","p","u","t"," ","o","n"," ","m","y"," ","s","p","e","a","k","e","r","p","h","o","n","e",".">>,
  \* I am pressing 'OK' but it goes back to the home screen.
  <<"I"," ","a","m"," ","p","r","e","s","s","i","n","g"," ","'","O","K","'"," ","b","u","t"," ","i","t"," ","g","o","e","s"," ","b","a","c","k"," ","t","o"," ","t","h","e"," ","h","o","m","e"," ","s","c","r","e","e","n",".">>,
  \* Do you know my branch manager, Mr. Patel?
  <<"D","o"," ","y","o","u"," ","k","n","o","w"," ","m","y"," ","b","r","a","n","c","h"," ","m","a","n","a","g","e","r",","," ","M","r","."," ","P","a","t","e","l","?">>,
  \* I am confused, which app should I open?
  <<"I"," ","a","m"," ","c","o","n","f","u","s","e","d",","," ","w","h","i","c","h"," ","a","p","p"," ","s","h","o","u","l","d"," ","I"," ","o","p","e","n","?">>,
  \* My grandson usually helps me with this. He is in school.
  <<"M","y"," ","g","r","a","n","d","s","o","n"," ","u","s","u","a","l","l","y"," ","h","e","l","p","s"," ","m","e"," ","w","i","t","h"," ","t","h","i","s","."," ","H","e"," ","i","s"," ","i","n"," ","s","c","h","o","o","l",".">>,
  \* The letters are too small. I cannot read them.
  <<"T","h","e"," ","l","e","t","t","e","r","s"," ","a","r","e"," ","t","o","o"," ","s","m","a","l","l","."," ","I"," ","c","a","n","n","o","t"," ","r","e","a","d"," ","t","h","e","m",".">>,
  \* Is this mandatory? Can I opt out?
  <<"I","s"," ","t","h","i","s"," ","m","a","n","d","a","t","o","r","y","?"," ","C","a","n"," ","I"," ","o","p","t"," ","o","u","t","?">>,
  \* My account balance is zero anyway.
  <<"M","y"," ","a","c","c","o","u","n","t"," ","b","a","l","a","n","c","e"," ","i","s"," ","z","e","r","o"," ","a","n","y","w","a","y",".">>,
  \* Wait, I am getting another call.
  <<"W","a","i","t",","," ","I"," ","a","m"," ","g","e","t","t","i","n","g"," ","a","n","o","t","h","e","r"," ","c","a","l","l",".">>,
  \* Can you verify my address first?
  <<"C","a","n"," ","y","o","u"," ","v","e","r","i","f","y"," ","m","y"," ","a","d","d","r","e","s","s"," ","f","i","r","s","t","?">>,
  \* I don't have a debit card, only a passbook.
  <<"I"," ","d","o","n","'","t"," ","h","a","v","e"," ","a"," ","d","e","b","i","t"," ","c","a","r","d",","," ","o","n","l","y"," ","a"," ","p","a","s","s","b","o","o","k",".">>,
  \* Is this about the gold loan?
  <<"I","s"," ","t","h","i","s"," ","a","b","o","u","t"," ","t","h","e"," ","g","o","l","d"," ","l","o","a","n","?">>,
  \* My phone fell in water yesterday, the sound is low.
  <<"M","y"," ","p","h","o","n","e"," ","f","e","l","l"," ","i","n"," ","w","a","t","e","r"," ","y","e","s","t","e","r","d","a","y",","," ","t","h","e"," ","s","o","u","n","d"," ","i","s"," ","l","o","w",".">>,
  \* I am eating lunch. Can you call in 1 hour?
  <<"I"," ","a","m"," ","e","a","t","i","n","g"," ","l","u","n","c","h","."," ","C","a","n"," ","y","o","u"," ","c","a","l","l"," ","i","n"," ","1"," ","h","o","u","r","?">>,
  \* Did I win something? Is this a prize?
  <<"D","i","d"," ","I"," ","w","i","n"," ","s","o","m","e","t","h","i","n","g","?"," ","I","s"," ","t","h","i","s"," ","a"," ","p","r","i","z","e","?">>,
  \* I am afraid of doing this online. Can I come to the office?
  <<"I"," ","a","m"," ","a","f","r","a","i","d"," ","o","f"," ","d","o","i","n","g"," ","t","h","i","s"," ","o","n","l","i","n","e","."," ","C","a","n"," ","I"," ","c","o","m","e"," ","t","o"," ","t","h","e"," ","o","f","f","i","c","e","?">>,
  \* What is an OTP? Is it the 4 digit number?
  <<"W","h","a","t"," ","i","s"," ","a","n"," ","O","T","P","?"," ","I","s"," ","i","t"," ","t","h","e"," ","4"," ","d","i","g","i","t"," ","n","u","m","b","e","r","?">>,
  \* I think I entered the wrong password 3 times.
  <<"I"," ","t","h","i","n","k"," ","I"," ","e","n","t","e","r","e","d"," ","t","h","e"," ","w","r","o","n","g"," ","p","a","s","s","w","o","r","d"," ","3"," ","t","i","m","e","s",".">>,
  \* The app is asking for an update. Should I click yes?
  <<"T","h","e"," ","a","p","p"," ","i","s"," ","a","s","k","i","n","g"," ","f","o","r"," ","a","n"," ","u","p","d","a","t","e","."," ","S","h","o","u","l","d"," ","I"," ","c","l","i","c","k"," ","y","e","s","?">>,
  \* My screen says 'Loading'. It is stuck.
  <<"M","y"," ","s","c","r","e","e","n"," ","s","a","y","s"," ","'","L","o","a","d","i","n","g","'","."," ","I","t"," ","i","s"," ","s","t","u","c","k",".">>,
  \* Can you send me a letter by post instead?
  <<"C","a","n"," ","y","o","u"," ","s","e","n","d"," ","m","e"," ","a"," ","l","e","t","t","e","r"," ","b","y"," ","p","o","s","t"," ","i","n","s","t","e","a","d","?">>,
  \* I don't use Google Pay or PhonePe.
  <<"I"," ","d","o","n","'","t"," ","u","s","e"," ","G","o","o","g","l","e"," ","P","a","y"," ","o","r"," ","P","h","o","n","e","P","e",".">>,
  \* My daughter said this might be a scam.
  <<"M","y"," ","d","a","u","g","h","t","e","r"," ","s","a","i","d"," ","t","h","i","s"," ","m","i","g","h","t"," ","b","e"," ","a"," ","s","c","a","m",".">>,
  \* Are you really from the bank? You sound young.
  <<"A","r","e"," ","y","o","u"," ","r","e","a","l","l","y"," ","f","r","o","m"," ","t","h","e"," ","b","a","n","k","?"," ","Y","o","u"," ","s","o","u","n","d"," ","y","o","u","n","g",".">>,
  \* I have to take my medicine now. One second.
  <<"I"," ","h","a","v","e"," ","t","o"," ","t","a","k","e"," ","m","y"," ","m","e","d","i","c","i","n","e"," ","n","o","w","."," ","O","n","e"," ","s","e","c","o","n","d",".">>,
  \* The keypad is not coming up on the screen.
  <<"T","h","e"," ","k","e","y","p","a","d"," ","i","s"," ","n","o","t"," ","c","o","m","i","n","g"," ","u","p"," ","o","n"," ","t","h","e"," ","s","c","r","e","e","n",".">>,
  \* I am looking for my reading glasses in the drawer.
  <<"I"," ","a","m"," ","l","o","o","k","i","n","g"," ","f","o","r"," ","m","y"," ","r","e","a","d","i","n","g"," ","g","l","a","s","s","e","s"," ","i","n"," ","t","h","e"," ","d","r","a","w","e","r",".">>,
  \* Can you repeat the number? I write very slowly.
  <<"C","a","n"," ","y","o","u"," ","r","e","p","e","a","t"," ","t","h","e"," ","n","u","m","b","e","r","?"," ","I"," ","w","r","i","t","e"," ","v","e","r","y"," ","s","l","o","w","l","y",".">>,
  \* Is this the same bank that is near the vegetable market?
  <<"I","s"," ","t","h","i","s"," ","t","h","e"," ","s","a","m","e"," ","b","a","n","k"," ","t","h","a","t"," ","i","s"," ","n","e","a","r"," ","t","h","e"," ","v","e","g","e","t","a","b","l","e"," ","m","a","r","k","e","t","?">>,
  \* I don't have my chequebook handy.
  <<"I"," ","d","o","n","'","t"," ","h","a","v","e"," ","m","y"," ","c","h","e","q","u","e","b","o","o","k"," ","h","a","n","d","y",".">>,
  \* Why do you need my date of birth?
  <<"W","h","y"," ","d","o"," ","y","o","u"," ","n","e","e","d"," ","m","y"," ","d","a","t","e"," ","o","f"," ","b","i","r","t","h","?">>,
  \* My phone is very old, it doesn't have internet.
  <<"M","y"," ","p","h","o","n","e"," ","i","s"," ","v","e","r","y"," ","o","l","d",","," ","i","t"," ","d","o","e","s","n","'","t"," ","h","a","v","e"," ","i","n","t","e","r","n","e","t",".">>,
  \* The TV volume is too high, let me lower it.
  <<"T","h","e"," ","T","V"," ","v","o","l","u","m","e"," ","i","s"," ","t","o","o"," ","h","i","g","h",","," ","l","e","t"," ","m","e"," ","l","o","w","e","r"," ","i","t",".">>,
  \* I am trying to find the SMS app.
  <<"I"," ","a","m"," ","t","r","y","i","n","g"," ","t","o"," ","f","i","n","d"," ","t","h","e"," ","S","M","S"," ","a","p","p",".">>,
  \* It says 'Network Error'. What should I do?
  <<"I","t"," ","s","a","y","s"," ","'","N","e","t","w","o","r","k"," ","E","r","r","o","r","'","."," ","W","h","a","t"," ","s","h","o","u","l","d"," ","I"," ","d","o","?">>,
  \* Can you send the message in Hindi or Tamil?
  <<"C","a","n"," ","y","o","u"," ","s","e","n","d"," ","t","h","e"," ","m","e","s","s","a","g","e"," ","i","n"," ","H","i","n","d","i"," ","o","r"," ","T","a","m","i","l","?">>,
  \* I am not comfortable sharing this over the phone.
  <<"I"," ","a","m"," ","n","o","t"," ","c","o","m","f","o","r","t","a","b","l","e"," ","s","h","a","r","i","n","g"," ","t","h","i","s"," ","o","v","e","r"," ","t","h","e"," ","p","h","o","n","e",".">>,
  \* Let me ask my neighbor to help me.
  <<"L","e","t"," ","m","e"," ","a","s","k"," ","m","y"," ","n","e","i","g","h","b","o","r"," ","t","o"," ","h","e","l","p"," ","m","e",".">>,
  \* I pressed the red button by mistake.
  <<"I"," ","p","r","e","s","s","e","d"," ","t","h","e"," ","r","e","d"," ","b","u","t","t","o","n"," ","b","y"," ","m","i","s","t","a","k","e",".">>,
  \* The phone is slipping from my hand.
  <<"T","h","e"," ","p","h","o","n","e"," ","i","s"," ","s","l","i","p","p","i","n","g"," ","f","r","o","m"," ","m","y"," ","h","a","n","d",".">>,
  \* I am making tea, just one minute.
  <<"I"," ","a","m"," ","m","a","k","i","n","g"," ","t","e","a",","," ","j","u","s","t"," ","o","n","e"," ","m","i","n","u","t","e",".">>,
  \* Can you hold on? The doorbell is ringing.
  <<"C","a","n"," ","y","o","u"," ","h","o","l","d"," ","o","n","?"," ","T","h","e"," ","d","o","o","r","b","e","l","l"," ","i","s"," ","r","i","n","g","i","n","g",".">>,
  \* I don't understand these English words.
  <<"I"," ","d","o","n","'","t"," ","u","n","d","e","r","s","t","a","n","d"," ","t","h","e","s","e"," ","E","n","g","l","i","s","h"," ","w","o","r","d","s",".">>,
  \* Is this urgent? I was sleeping.
  <<"I","s"," ","t","h","i","s"," ","u","r","g","e","n","t","?"," ","I"," ","w","a","s"," ","s","l","e","e","p","i","n","g",".">>,
  \* My card is expired I think.
  <<"M","y"," ","c","a","r","d"," ","i","s"," ","e","x","p","i","r","e","d"," ","I"," ","t","h","i","n","k",".">>,
  \* I lost my purse yesterday with the card.
  <<"I"," ","l","o","s","t"," ","m","y"," ","p","u","r","s","e"," ","y","e","s","t","e","r","d","a","y"," ","w","i","t","h"," ","t","h","e"," ","c","a","r","d",".">>,
  \* Can I call you back on the official number?
  <<"C","a","n"," ","I"," ","c","a","l","l"," ","y","o","u"," ","b","a","c","k"," ","o","n"," ","t","h","e"," ","o","f","f","i","c","i","a","l"," ","n","u","m","b","e","r","?">>,
  \* Who is this speaking again?
  <<"W","h","o"," ","i","s"," ","t","h","i","s"," ","s","p","e","a","k","i","n","g"," ","a","g","a","i","n","?">>,
  \* My memory is very bad these days.
  <<"M","y"," ","m","e","m","o","r","y"," ","i","s"," ","v","e","r","y"," ","b","a","d"," ","t","h","e","s","e"," ","d","a","y","s",".">>,
  \* I am trying to unlock my phone.
  <<"I"," ","a","m"," ","t","r","y","i","n","g"," ","t","o"," ","u","n","l","o","c","k"," ","m","y"," ","p","h","o","n","e",".">>,
  \* The touch screen is not working properly.
  <<"T","h","e"," ","t","o","u","c","h"," ","s","c","r","e","e","n"," ","i","s"," ","n","o","t"," ","w","o","r","k","i","n","g"," ","p","r","o","p","e","r","l","y",".">>,
  \* I am driving, wait.
  <<"I"," ","a","m"," ","d","r","i","v","i","n","g",","," ","w","a","i","t",".">>,
  \* Are you the manager?
  <<"A","r","e"," ","y","o","u"," ","t","h","e"," ","m","a","n","a","g","e","r","?">>,
  \* I don't have any money to give you.
  <<"I"," ","d","o","n","'","t"," ","h","a","v","e"," ","a","n","y"," ","m","o","n","e","y"," ","t","o"," ","g","i","v","e"," ","y","o","u",".">>,
  \* Is this a government scheme?
  <<"I","s"," ","t","h","i","s"," ","a"," ","g","o","v","e","r","n","m","e","n","t"," ","s","c","h","e","m","e","?">>,
  \* My phone is about to switch off.
  <<"M","y"," ","p","h","o","n","e"," ","i","s"," ","a","b","o","u","t"," ","t","o"," ","s","w","i","t","c","h"," ","o","f","f",".">>
 >>

API_ACCESS_TOKEN == "token"

\* the reply of handle_webhook to a session that is not flagged:
\* "I am sorry, who is this message for?"
NeutralReply ==
  <<"I"," ","a","m"," ","s","o","r","r","y",","," ","w","h","o"," ","i","s"," ","t","h","i","s"," ","m","e","s","s","a","g","e"," ","f","o","r","?">>

\* "AI_DETECTED_SUSPICIOUS_CONTENT"
AiDetected == <<"A","I","_","D","E","T","E","C","T","E","D","_","S","U","S","P","I","C","I","O","U","S","_","C","O","N","T","E","N","T">>

\* the substrings of str(e) that make a generation error a transient one
TransientCodes == {<<"4","2","9">>, <<"4","0","3">>, <<"4","0","4">>}

\* session["turns"] % 5 == 0
ReportEvery == 5

\* for attempt in range(2)
MaxAttempts == 2

\* len(reply_text) < 5
MinReplyLen == 5

(***************************************************************************)
(* Bounds and input domains                                                *)
(***************************************************************************)
\* authorized messages accepted for one session in one behaviour
MaxMsgs == 5

\* authorized messages accepted for one session in a behaviour of LiveSpec
MaxLiveMsgs == 3

\* calls of scan_for_intel on its own in one behaviour
MaxScans == 3

\* random.choice(FALLBACK_REPLIES) draws among the first MaxChoice lines
MaxChoice == 2

\* Session identifiers are opaque.  The first one carries a whole conversation;
\* the second one is a bystander conversation: it starts once the first one
\* has a session and receives its opening message only, a text of
\* BystanderTexts.
SessionIds == <<"s1", "s2">>

Sids == Range(SessionIds)

\* Positions in the list of requests in flight, oldest first: the server
\* holds at most this many requests, with their background tasks, at a time.
Reqs == {1, 2}

\* values of the x-api-key header
ApiKeyHeaders == {"token", "wrong"}

\* values of GEMINI_KEY after splitting: no key, one key, two keys
KeyPools == {<<>>, <<"k1">>, <<"k1", "k2">>}

\* URGENT
TextUrgent == <<"U","R","G","E","N","T">>

\* 9876543210
TextPhone == <<"9","8","7","6","5","4","3","2","1","0">>

\* req.message.text
Texts == {TextUrgent, TextPhone}

\* req.message.text of the bystander conversation
BystanderTexts == {TextPhone}

\* hello
TextHello == <<"h","e","l","l","o">>

\* Your account is blocked, send OTP to 9876543210 and pay to scammer@upi
ScanTextScenario ==
  <<"Y","o","u","r"," ","a","c","c","o","u","n","t"," ","i","s"," ","b","l","o","c","k","e","d",","," ","s","e","n","d"," ","O","T","P"," ","t","o"," ","9","8","7","6","5","4","3","2","1","0"," ","a","n","d"," ","p","a","y"," ","t","o"," ","s","c","a","m","m","e","r","@","u","p","i">>

\* +91 9876543210
ScanTextPrefixed ==
  <<"+","9","1"," ","9","8","7","6","5","4","3","2","1","0">>

\* 9876543210 9876543210
ScanTextTwice ==
  <<"9","8","7","6","5","4","3","2","1","0"," ","9","8","7","6","5","4","3","2","1","0">>

\* http://x.co/a ab@upi
ScanTextLink ==
  <<"h","t","t","p",":","/","/","x",".","c","o","/","a"," ","a","b","@","u","p","i">>

\* 123456789012
ScanTextAccount ==
  <<"1","2","3","4","5","6","7","8","9","0","1","2">>

\* the texts given to scan_for_intel on its own
ScanTexts ==
  {ScanTextScenario, ScanTextPrefixed, ScanTextTwice, ScanTextLink,
   ScanTextAccount, TextHello, TextPhone}

\* WHO IS THIS?
TextWhoUpper == <<"W","H","O"," ","I","S"," ","T","H","I","S","?">>

\* req.conversationHistory
Histories ==
  { <<>>,
    << [sender |-> "scammer", text |-> TextUrgent],
       [sender |-> "user", text |-> TextWhoUpper],
       [sender |-> "scammer", text |-> TextHello] >>,
    << [sender |-> "scammer", text |-> TextUrgent],
       [sender |-> "user", text |-> FALLBACK_REPLIES[1]] >> }

\* response.text of the generation backend: "Who is this?\n" and "ok"
BackendTexts ==
  { <<"W","h","o"," ","i","s"," ","t","h","i","s","?","\n">>,
    <<"o","k">> }

\* str(e) of an exception of the generation backend:
\* "429 quota exceeded", "403 forbidden", "404 not found", "500 internal"
BackendErrors ==
  { <<"4","2","9"," ","q","u","o","t","a"," ","e","x","c","e","e","d","e","d">>,
    <<"4","0","3"," ","f","o","r","b","i","d","d","e","n">>,
    <<"4","0","4"," ","n","o","t"," ","f","o","u","n","d">>,
    <<"5","0","0"," ","i","n","t","e","r","n","a","l">> }

\* the indices random.choice(FALLBACK_REPLIES) draws from
ChoiceIdx == {i \in 1..Len(FALLBACK_REPLIES) : i <= MaxChoice}

(***************************************************************************)
(* State                                                                   *)
(***************************************************************************)
VARIABLES
  API_KEYS,           \* the credential pool read from the environment
  CURRENT_KEY_INDEX,  \* 0-based index into API_KEYS
  ai_model,           \* [ready, key]: ready = FALSE stands for None
  active_sessions,    \* sessionId -> [is_scam, turns, extractedIntelligence]
  handlers,           \* the requests in flight, oldest first: position and locals
  reports,            \* per session: add_task(dispatch_report, ...) calls so far
  msgs,               \* per session: authorized messages received so far
  scan                \* scan_for_intel called on its own: its session and result

vars ==
  <<API_KEYS, CURRENT_KEY_INDEX, ai_model, active_sessions, handlers, reports,
    msgs, scan>>

NoModel == [ready |-> FALSE, key |-> 0]

NoIntel ==
  [upiIds |-> <<>>, bankAccounts |-> <<>>, phishingLinks |-> <<>>,
   phoneNumbers |-> <<>>, suspiciousKeywords |-> <<>>]

\* A request in flight.  sid and new_intel are locals of handle_webhook,
\* attempt is the loop variable of generate_persona_reply, key the credential
\* of the model object whose generate_content the attempt called, reply the value
\* returned; turn records the value of session["turns"] this request produced
\* and ret the return statement that chose the reply; sched_turns records
\* session["turns"] at the add_task call; total and intel are the payload's
\* totalMessagesExchanged and extractedIntelligence.
\* pc: "idle"      only in the blank record Idle, never in the list
\*     "rejected"  HTTPException(401) raised, response not yet sent
\*     "to_thread" awaiting asyncio.to_thread(ai_model.generate_content, ...)
\*     "configuring" inside rotate_key(): the index is advanced and configure_ai()
\*                 is making its calls on the event loop's thread
\*     "sleep"     awaiting asyncio.sleep(2)
\*     "respond"   handle_webhook returned, response not yet sent
\*     "report"    response sent, dispatch_report not yet started
\*     "posting"   requests.post has serialised the payload and awaits the answer
Idle ==
  [pc |-> "idle", sid |-> "", turn |-> 0, new_intel |-> FALSE, attempt |-> 0,
   key |-> 0, reply |-> <<>>, ret |-> "", report |-> FALSE, sched_turns |-> 0,
   total |-> 0, intel |-> NoIntel]

\* scan: the session's extractedIntelligence, the text of the last call and
\* its result, the text and the extractedIntelligence before that call, and
\* the number of calls
NoScan ==
  [intel |-> NoIntel, text |-> <<>>, updated |-> FALSE,
   prev_text |-> <<>>, prev_intel |-> NoIntel, runs |-> 0]

\* the dict handle_webhook stores for a new sessionId
NewSession == [is_scam |-> FALSE, turns |-> 0, extractedIntelligence |-> NoIntel]

(***************************************************************************)
(* Pure functions                                                          *)
(***************************************************************************)
\* re.findall(regex, text) for the message texts, computed once per text
FindallOfTexts ==
  [k \in Range(PatternKeys) |-> [t \in Texts \cup ScanTexts |-> re_findall(k, t)]]

findall(category, text) ==
  IF text \in Texts \cup ScanTexts THEN FindallOfTexts[category][text] ELSE re_findall(category, text)

\* the loop body without the `not in` test: every match is appended
ScanItems_NoDedup(lst, found, updated) ==
  [lst     |-> lst \o [i \in 1..Len(found) |-> strip(found[i])],
   updated |-> updated \/ found # <<>>]

\* the loop body of scan_for_intel over the matches of one category
RECURSIVE ScanItems(_, _, _)
ScanItems(lst, found, updated) ==
  IF found = <<>>
  THEN [lst |-> lst, updated |-> updated]
  ELSE LET clean_item == strip(Head(found))
       IN  IF ~InList(clean_item, lst)
           THEN ScanItems(Append(lst, clean_item), Tail(found), TRUE)
           ELSE ScanItems(lst, Tail(found), updated)

\* scan_for_intel returning True whenever a pattern matched, new value or not
scan_for_intel_AnyMatch(text, intel) ==
  LET res == [k \in Range(PatternKeys) |->
                ScanItems(intel[k], findall(k, text), FALSE)]
  IN  [intel   |-> [k \in DOMAIN intel |->
                      IF k \in Range(PatternKeys) THEN res[k].lst ELSE intel[k]],
       updated |-> \E k \in Range(PatternKeys) : findall(k, text) # <<>>]

\* scan_for_intel(text, session): the new extractedIntelligence and the result
scan_for_intel(text, intel) ==
  LET res == [k \in Range(PatternKeys) |->
                ScanItems(intel[k], findall(k, text), FALSE)]
  IN  [intel   |-> [k \in DOMAIN intel |->
                      IF k \in Range(PatternKeys) THEN res[k].lst ELSE intel[k]],
       updated |-> \E k \in Range(PatternKeys) : res[k].updated]

IsTrigger(t, text_lower) == Contains(t, text_lower)

get_matched_keywords(text) ==
  LET text_lower == lower(text)
  IN  SelectSeq(SCAM_TRIGGERS, LAMBDA t : IsTrigger(t, text_lower))

\* get_matched_keywords for the message texts, computed once per text
KeywordsOfTexts == [t \in Texts |-> get_matched_keywords(t)]

keywords_of(text) ==
  IF text \in Texts THEN KeywordsOfTexts[text] ELSE get_matched_keywords(text)

detect_scam_via_llm(text) == FALSE

is_suspicious(text) ==
  LET text_lower == lower(text)
  IN  \/ \E i \in 1..Len(SCAM_TRIGGERS) : Contains(SCAM_TRIGGERS[i], text_lower)
      \/ re_search("phishingLinks", text)
      \/ re_search("phoneNumbers", text)

\* handle_webhook's loop over matched_keywords
RECURSIVE AddKeywords(_, _)
AddKeywords(lst, kws) ==
  IF kws = <<>>
  THEN lst
  ELSE AddKeywords(IF ~InList(Head(kws), lst) THEN Append(lst, Head(kws)) ELSE lst,
                   Tail(kws))

\* generate_persona_reply: the text of the last history message whose sender
\* is "user", "" when there is none
LastBotMsg(history) ==
  LET idx == {i \in 1..Len(history) : history[i].sender = "user"}
  IN  IF idx = {} THEN <<>> ELSE history[SetMax(idx)].text

\* the test of generate_persona_reply that discards a generated text
LoopDetected(reply_text, last_bot_msg) ==
  lower(reply_text) = lower(last_bot_msg) \/ Len(reply_text) < MinReplyLen

\* any(err in str(e) for err in ["429", "403", "404"])
IsTransient(e) == \E code \in TransientCodes : Contains(code, e)

\* IsTransient for the backend's errors, computed once per error
TransientOfErrors == [e \in BackendErrors |-> IsTransient(e)]

is_transient(e) == IF e \in BackendErrors THEN TransientOfErrors[e] ELSE IsTransient(e)

\* response.text.strip() and the loop test for the backend's texts and the
\* histories, computed once per pair
RepliesOfTexts ==
  [raw \in BackendTexts |->
     [history \in Histories |->
        [reply_text |-> strip(raw),
         loop       |-> LoopDetected(strip(raw), LastBotMsg(history))]]]

\* configure_ai(): ok tells whether a model could be set up with the current
\* key; on any failure ai_model keeps its value
configure_ai(keys, index, model, ok) ==
  IF keys = <<>>
  THEN model
  ELSE IF ok THEN [ready |-> TRUE, key |-> index] ELSE model

\* rotate_key() advancing the index without the modulo
rotate_key_NoWrap(keys, index) ==
  IF Len(keys) <= 1
  THEN [result |-> FALSE, index |-> index]
  ELSE [result |-> TRUE, index |-> index + 1]

\* rotate_key() up to its call of configure_ai(): its result and the new index
rotate_key(keys, index) ==
  IF Len(keys) <= 1
  THEN [result |-> FALSE, index |-> index]
  ELSE [result |-> TRUE, index |-> (index + 1) % Len(keys)]

\* the x-api-key test left out
Authorized_Any(x_api_key) == TRUE

\* the x-api-key test of handle_webhook
Authorized(x_api_key) == x_api_key = API_ACCESS_TOKEN

\* the increment written from a value read before another request's increment
NextTurns_Lost(turns) == IF turns >= 1 THEN turns ELSE turns + 1

\* session["turns"] += 1
NextTurns(turns) == turns + 1

\* is_scam assigned from the current message alone
FlagOnKeywords_Reset(is_scam, matched) == matched # <<>>

\* handle_webhook's update of is_scam on matched keywords
FlagOnKeywords(is_scam, matched) == IF matched # <<>> THEN TRUE ELSE is_scam

\* the report condition without the is_scam test
ShouldReport_NoFlag(session, new_intel) ==
  new_intel \/ session.turns % ReportEvery = 0

\* the condition under which handle_webhook adds the dispatch_report task
ShouldReport(session, new_intel) ==
  session.is_scam /\ (new_intel \/ session.turns % ReportEvery = 0)

(***************************************************************************)
(* Startup: module initialisation and lifespan()                           *)
(***************************************************************************)
Init ==
  /\ API_KEYS \in KeyPools
  /\ CURRENT_KEY_INDEX = 0
  /\ \E ok \in BOOLEAN : ai_model = configure_ai(API_KEYS, 0, NoModel, ok)
  /\ active_sessions = <<>>
  /\ handlers = <<>>
  /\ reports = [s \in Sids |-> 0]
  /\ msgs = [s \in Sids |-> 0]
  /\ scan = NoScan

(***************************************************************************)
(* handle_webhook                                                          *)
(***************************************************************************)
\* the position a new request takes in the list
Accepts(r) == r = Len(handlers) + 1

\* the request at position r is at pc
At(r, pc) == r \in DOMAIN handlers /\ handlers[r].pc = pc

\* the list without the request at position r, which has ended
Remove(r) == SubSeq(handlers, 1, r - 1) \o SubSeq(handlers, r + 1, Len(handlers))

\* configure_ai() is a synchronous call made from a coroutine: while a request
\* is inside it the event loop runs no other coroutine
Blocked == \E r \in DOMAIN handlers : handlers[r].pc = "configuring"

\* the session identifiers and texts a client may use now
Usable(sid, msg_text) ==
  \/ sid = SessionIds[1]
  \/ /\ SessionIds[1] \in DOMAIN active_sessions
     /\ sid \notin DOMAIN active_sessions
     /\ msg_text \in BystanderTexts

\* The end of handle_webhook, from the reply on: the report decision on the
\* session as it is now, add_task, and the return.
Finish(r, sid, turn, new_intel, reply, ret, sessions) ==
  LET session == sessions[sid]
      report  == ShouldReport(session, new_intel)
  IN  /\ reports' = IF report THEN [reports EXCEPT ![sid] = @ + 1] ELSE reports
      /\ LET h == [Idle EXCEPT !.pc = "respond", !.sid = sid, !.turn = turn,
                                 !.reply = reply, !.ret = ret, !.report = report,
                                 !.sched_turns = IF report THEN session.turns ELSE 0]
         IN  handlers' = IF r \in DOMAIN handlers
                         THEN [handlers EXCEPT ![r] = h]
                         ELSE Append(handlers, h)

\* the attempt loop ending without the fallback line
Exhausted_Empty(r) ==
  Finish(r, handlers[r].sid, handlers[r].turn, handlers[r].new_intel,
         <<>>, "exhausted", active_sessions)

\* print("[ERROR] Max retries reached. Sending fallback.") and the return after it
Exhausted(r) ==
  \E i \in ChoiceIdx :
    Finish(r, handlers[r].sid, handlers[r].turn, handlers[r].new_intel,
           FALLBACK_REPLIES[i], "exhausted", active_sessions)

\* the attempt loop re-raising after its last attempt: the handler ends in an
\* error and no reply is made
Continue_Raises(r, model) ==
  IF handlers[r].attempt + 1 < MaxAttempts
  THEN /\ handlers' = [handlers EXCEPT ![r].pc = "to_thread", ![r].attempt = @ + 1,
                                        ![r].key = model.key]
       /\ UNCHANGED reports
  ELSE /\ handlers' = [handlers EXCEPT ![r].pc = "error"]
       /\ UNCHANGED reports

\* `continue`: the next iteration of the attempt loop, up to its await; model
\* is the value of ai_model the iteration reads
Continue(r, model) ==
  IF handlers[r].attempt + 1 < MaxAttempts
  THEN /\ handlers' = [handlers EXCEPT ![r].pc = "to_thread", ![r].attempt = @ + 1,
                                        ![r].key = model.key]
       /\ UNCHANGED reports
  ELSE Exhausted(r)

\* A request arrives and takes position r: handle_webhook up to its first await,
\* and to its return when it awaits nothing.
handle_webhook(r, sid, msg_text, x_api_key) ==
  /\ Accepts(r)
  /\ r \in Reqs
  /\ ~Blocked
  /\ IF ~Authorized(x_api_key)
     THEN /\ handlers' = Append(handlers, [Idle EXCEPT !.pc = "rejected"])
          /\ UNCHANGED <<scan, API_KEYS, CURRENT_KEY_INDEX, ai_model, active_sessions,
                         reports, msgs>>
     ELSE /\ Usable(sid, msg_text)
          /\ msgs[sid] < MaxMsgs
          /\ LET created == IF sid \in DOMAIN active_sessions
                            THEN active_sessions
                            ELSE [s \in DOMAIN active_sessions \cup {sid} |->
                                    IF s = sid THEN NewSession ELSE active_sessions[s]]
                 s1 == [created[sid] EXCEPT !.turns = NextTurns(@)]
                 matched_keywords == keywords_of(msg_text)
                 s2 == [s1 EXCEPT
                          !.is_scam = FlagOnKeywords(@, matched_keywords),
                          !.extractedIntelligence.suspiciousKeywords =
                             AddKeywords(@, matched_keywords)]
                 s3 == IF ~s2.is_scam /\ detect_scam_via_llm(msg_text)
                       THEN [s2 EXCEPT
                               !.is_scam = TRUE,
                               !.extractedIntelligence.suspiciousKeywords =
                                  Append(@, AiDetected)]
                       ELSE s2
                 scanned == scan_for_intel(msg_text, s3.extractedIntelligence)
                 session == [s3 EXCEPT !.extractedIntelligence = scanned.intel]
                 sessions == [created EXCEPT ![sid] = session]
             IN  /\ active_sessions' = sessions
                 /\ msgs' = [msgs EXCEPT ![sid] = @ + 1]
                 /\ IF session.is_scam
                    THEN IF ~ai_model.ready
                         THEN \E i \in ChoiceIdx :
                                Finish(r, sid, session.turns, scanned.updated,
                                       FALLBACK_REPLIES[i], "no_model", sessions)
                         ELSE /\ handlers' = Append(handlers,
                                   [Idle EXCEPT !.pc = "to_thread", !.sid = sid,
                                                !.key = ai_model.key,
                                                !.turn = session.turns,
                                                !.new_intel = scanned.updated])
                              /\ UNCHANGED reports
                    ELSE Finish(r, sid, session.turns, scanned.updated, NeutralReply,
                                "neutral", sessions)
          /\ UNCHANGED <<scan, API_KEYS, CURRENT_KEY_INDEX, ai_model>>

\* ai_model.generate_content returns raw in its thread: the rest of
\* generate_persona_reply and of handle_webhook.  req.conversationHistory is
\* read only by the loop test of the attempt that returns, so the request's
\* history is drawn here.
generate_content_returns(r, raw, history) ==
  /\ At(r, "to_thread")
  /\ ~Blocked
  /\ LET h == handlers[r]
         res == RepliesOfTexts[raw][history]
     IN  IF res.loop
         THEN \E i \in ChoiceIdx :
                Finish(r, h.sid, h.turn, h.new_intel, FALLBACK_REPLIES[i], "loop",
                       active_sessions)
         ELSE Finish(r, h.sid, h.turn, h.new_intel, res.reply_text, "generated",
                     active_sessions)
  /\ UNCHANGED <<scan, API_KEYS, CURRENT_KEY_INDEX, ai_model, active_sessions, msgs>>

\* ai_model.generate_content raises e: the except clause, up to the next await
\* or to the call of configure_ai() inside rotate_key()
generate_content_raises(r, e) ==
  /\ At(r, "to_thread")
  /\ ~Blocked
  /\ IF is_transient(e)
     THEN LET rot == rotate_key(API_KEYS, CURRENT_KEY_INDEX)
          IN  /\ CURRENT_KEY_INDEX' = rot.index
              /\ handlers' = [handlers EXCEPT
                                ![r].pc = IF rot.result THEN "configuring" ELSE "sleep"]
              /\ UNCHANGED reports
     ELSE /\ Exhausted(r)
          /\ UNCHANGED CURRENT_KEY_INDEX
  /\ UNCHANGED <<scan, API_KEYS, ai_model, active_sessions, msgs>>

\* configure_ai() returns inside rotate_key(), which returns True: `continue`
configure_returns(r, ok) ==
  /\ At(r, "configuring")
  /\ LET model == configure_ai(API_KEYS, CURRENT_KEY_INDEX, ai_model, ok)
     IN  /\ ai_model' = model
         /\ Continue(r, model)
  /\ UNCHANGED <<scan, API_KEYS, CURRENT_KEY_INDEX, active_sessions, msgs>>

\* await asyncio.sleep(2) returns
sleep_returns(r) ==
  /\ At(r, "sleep")
  /\ ~Blocked
  /\ Continue(r, ai_model)
  /\ UNCHANGED <<scan, API_KEYS, CURRENT_KEY_INDEX, ai_model, active_sessions, msgs>>

\* the response is sent: the 401, or {"status": "success", "reply": reply};
\* the background task, if one was added, runs after it
send_response(r) ==
  /\ At(r, "rejected") \/ At(r, "respond")
  /\ ~Blocked
  /\ LET h == handlers[r]
     IN  handlers' = IF h.pc = "respond" /\ h.report
                     THEN [handlers EXCEPT ![r] =
                             [Idle EXCEPT !.pc = "report", !.sid = h.sid,
                                          !.sched_turns = h.sched_turns]]
                     ELSE Remove(r)
  /\ UNCHANGED <<scan, API_KEYS, CURRENT_KEY_INDEX, ai_model, active_sessions, reports, msgs>>

(***************************************************************************)
(* dispatch_report, run in a worker thread as a background task.  The      *)
(* model lets it read the session between two steps of the event loop; the *)
(* thread runs whether or not the event loop is inside configure_ai().     *)
(***************************************************************************)
\* the is_scam test, the payload and its serialisation by requests.post
dispatch_report(r) ==
  /\ At(r, "report")
  /\ LET data == active_sessions[handlers[r].sid]
     IN  handlers' = IF ~data.is_scam
                     THEN Remove(r)
                     ELSE [handlers EXCEPT ![r].pc = "posting",
                                           ![r].total = data.turns,
                                           ![r].intel = data.extractedIntelligence]
  /\ UNCHANGED <<scan, API_KEYS, CURRENT_KEY_INDEX, ai_model, active_sessions, reports, msgs>>

\* a failed send put back in line to be sent again
post_returns_Retry(r, ok) ==
  /\ At(r, "posting")
  /\ handlers' = IF ok THEN Remove(r) ELSE [handlers EXCEPT ![r].pc = "report"]
  /\ UNCHANGED <<scan, API_KEYS, CURRENT_KEY_INDEX, ai_model, active_sessions, reports, msgs>>

\* requests.post returns (ok) or raises; the exception is caught and printed,
\* so both outcomes end the task alike
post_returns(r, ok) ==
  /\ At(r, "posting")
  /\ handlers' = Remove(r)
  /\ UNCHANGED <<scan, API_KEYS, CURRENT_KEY_INDEX, ai_model, active_sessions, reports, msgs>>

(***************************************************************************)
(* scan_for_intel on its own, on one session dict                          *)
(***************************************************************************)
scan_call(text) ==
  /\ scan.runs < MaxScans
  /\ LET res == scan_for_intel(text, scan.intel)
     IN  scan' = [intel |-> res.intel, text |-> text, updated |-> res.updated,
                  prev_text |-> scan.text, prev_intel |-> scan.intel,
                  runs |-> scan.runs + 1]
  /\ UNCHANGED <<API_KEYS, CURRENT_KEY_INDEX, ai_model, active_sessions, handlers,
                 reports, msgs>>

ScanNext == \E text \in ScanTexts : scan_call(text)

ScanSpec == Init /\ [][ScanNext]_vars

Next ==
  \/ \E r \in Reqs, sid \in Sids, msg_text \in Texts, x_api_key \in ApiKeyHeaders :
       handle_webhook(r, sid, msg_text, x_api_key)
  \/ \E r \in Reqs, raw \in BackendTexts, history \in Histories :
       generate_content_returns(r, raw, history)
  \/ \E r \in Reqs, e \in BackendErrors : generate_content_raises(r, e)
  \/ \E r \in Reqs, ok \in BOOLEAN : configure_returns(r, ok)
  \/ \E r \in Reqs : sleep_returns(r)
  \/ \E r \in Reqs : send_response(r)
  \/ \E r \in Reqs : dispatch_report(r)
  \/ \E r \in Reqs, ok \in BOOLEAN : post_returns(r, ok)

Spec == Init /\ [][Next]_vars

\* The event loop runs every coroutine that can run, every call of the
\* generation backend and every post returns or raises, and every response is
\* sent: the request at position r takes its next step.
Progress(r) ==
  \/ \E raw \in BackendTexts, history \in Histories :
       generate_content_returns(r, raw, history)
  \/ \E e \in BackendErrors : generate_content_raises(r, e)
  \/ \E ok \in BOOLEAN : configure_returns(r, ok)
  \/ sleep_returns(r)
  \/ send_response(r)
  \/ dispatch_report(r)
  \/ \E ok \in BOOLEAN : post_returns(r, ok)

\* The same steps for conversations of at most MaxLiveMsgs messages
LiveNext ==
  \/ \E r \in Reqs, sid \in Sids, msg_text \in Texts, x_api_key \in ApiKeyHeaders :
       msgs[sid] < MaxLiveMsgs /\ handle_webhook(r, sid, msg_text, x_api_key)
  \/ \E r \in Reqs, raw \in BackendTexts, history \in Histories :
       generate_content_returns(r, raw, history)
  \/ \E r \in Reqs, e \in BackendErrors : generate_content_raises(r, e)
  \/ \E r \in Reqs, ok \in BOOLEAN : configure_returns(r, ok)
  \/ \E r \in Reqs : sleep_returns(r)
  \/ \E r \in Reqs : send_response(r)
  \/ \E r \in Reqs : dispatch_report(r)
  \/ \E r \in Reqs, ok \in BOOLEAN : post_returns(r, ok)

LiveSpec == Init /\ [][LiveNext]_vars /\ \A r \in Reqs : WF_vars(Progress(r))

(***************************************************************************)
(* Properties                                                              *)
(***************************************************************************)
\* C1: for every flagged session, at most one report is ever scheduled, none
\* is scheduled while turns is below the threshold ReportEvery, and once the
\* session has received ReportEvery messages and all its requests have
\* returned, exactly one has been scheduled.
C1_ExactlyOneReport ==
  \A s \in DOMAIN active_sessions :
    /\ reports[s] <= 1
    /\ \A r \in DOMAIN handlers :
         handlers[r].sid = s /\ handlers[r].sched_turns # 0
           => handlers[r].sched_turns >= ReportEvery
    /\ ( /\ active_sessions[s].is_scam
         /\ active_sessions[s].turns >= ReportEvery
         /\ \A r \in DOMAIN handlers :
              handlers[r].sid = s
                => handlers[r].pc \notin {"to_thread", "configuring", "sleep"} )
       => reports[s] = 1

\* C2: a step never takes a session away nor sets its is_scam back to false.
C2_MonotonicScamFlag ==
  [][\A s \in DOMAIN active_sessions :
       active_sessions[s].is_scam
         => s \in DOMAIN active_sessions' /\ active_sessions'[s].is_scam]_vars

\* C2 witness: a message without trigger keywords (it brought new intel, and
\* no text of Texts has both) was handled on a session that was flagged
\* already, and the session is still flagged.
C2_Witness ==
  \E r \in DOMAIN handlers :
    /\ handlers[r].new_intel
    /\ handlers[r].turn >= 2
    /\ handlers[r].pc \in {"to_thread", "sleep"}
    /\ active_sessions[handlers[r].sid].is_scam

\* C3: a session's turns equals the number of authorized messages received
\* for it (0 and no session before the first one), and no step decreases it.
C3_TurnsCountMessages ==
  /\ [](\A s \in Sids :
          IF s \in DOMAIN active_sessions
          THEN active_sessions[s].turns = msgs[s] /\ msgs[s] >= 1
          ELSE msgs[s] = 0)
  /\ [][\A s \in DOMAIN active_sessions :
          active_sessions'[s].turns \in
            {active_sessions[s].turns, active_sessions[s].turns + 1}]_vars

\* C3 witness: two requests of one session are suspended in the generation
\* call at once, and a third message of that session has been counted.
C3_Witness ==
  /\ Len(handlers) = 2
  /\ handlers[1].sid = handlers[2].sid
  /\ handlers[1].pc \in {"to_thread", "sleep"}
  /\ handlers[2].pc \in {"to_thread", "sleep"}
  /\ active_sessions[handlers[1].sid].turns >= 3

C5_IdempotentExtraction ==
  scan.runs >= 2 /\ scan.text = scan.prev_text
    => scan.intel = scan.prev_intel /\ ~scan.updated

\* C5 witness: the second run found the phone number and the UPI id that the
\* first run had stored.
C5_Witness ==
  /\ scan.runs >= 2
  /\ scan.text = scan.prev_text
  /\ scan.intel.phoneNumbers # <<>>
  /\ scan.intel.upiIds # <<>>

C7_FallbackGuarantee ==
  \A r \in DOMAIN handlers :
    handlers[r].pc = "respond" /\ handlers[r].ret \in {"no_model", "exhausted"}
      => /\ handlers[r].reply # <<>>
         /\ handlers[r].reply \in Range(FALLBACK_REPLIES)

\* C7 witness: with two keys in the pool, both attempts failed.
C7_Witness ==
  \E r \in DOMAIN handlers :
    /\ handlers[r].pc = "respond"
    /\ handlers[r].ret = "exhausted"
    /\ Len(API_KEYS) = 2

\* C8: in a conversation of finitely many messages there comes a point after
\* which no request is suspended in generate_persona_reply; a suspended
\* request leaves it only by returning a non-empty reply to the handler, which
\* returns it; and no request is ever at another position than the ones of a
\* normal run.
C8_AlwaysReplies ==
  /\ <>[](\A r \in DOMAIN handlers :
            handlers[r].pc \notin {"to_thread", "configuring", "sleep"})
  /\ [][\A r \in DOMAIN handlers :
          handlers[r].pc \in {"to_thread", "configuring", "sleep"}
            => \E q \in DOMAIN handlers' :
                 /\ handlers'[q].sid = handlers[r].sid
                 /\ handlers'[q].turn = handlers[r].turn
                 /\ \/ handlers'[q].pc \in {"to_thread", "configuring", "sleep"}
                    \/ /\ handlers'[q].pc = "respond"
                       /\ handlers'[q].reply # <<>>]_vars
  /\ [](\A r \in DOMAIN handlers :
          /\ handlers[r].pc \in
               {"rejected", "to_thread", "configuring", "sleep", "respond",
                "report", "posting"}
          /\ handlers[r].pc = "respond" => handlers[r].reply # <<>>)

\* C8 witness: a rotation whose re-configuration failed left the model on the
\* old key, and the request returned a generated reply all the same.
C8_Witness ==
  \E r \in DOMAIN handlers :
    /\ handlers[r].pc = "respond"
    /\ handlers[r].ret = "generated"
    /\ handlers[r].reply # <<>>
    /\ ai_model.ready
    /\ ai_model.key # CURRENT_KEY_INDEX

\* C9: a request with a wrong x-api-key is rejected and changes neither the
\* sessions, nor the credential index and model, nor the scheduled reports.
C9_UnauthorizedMutatesNothing ==
  [][\A r \in Reqs, sid \in Sids, msg_text \in Texts :
       handle_webhook(r, sid, msg_text, "wrong")
         => /\ handlers' = Append(handlers, [Idle EXCEPT !.pc = "rejected"])
            /\ UNCHANGED <<active_sessions, CURRENT_KEY_INDEX, ai_model,
                           reports, msgs, API_KEYS>>]_vars

\* C9 witness: a request was rejected while a flagged session with extracted
\* intelligence exists.
C9_Witness ==
  \E r \in DOMAIN handlers, s \in DOMAIN active_sessions :
    /\ handlers[r].pc = "rejected"
    /\ active_sessions[s].is_scam
    /\ active_sessions[s].extractedIntelligence.phoneNumbers # <<>>

\* C10: two requests of one session on consecutive turns, both answered on a
\* path that has more than one candidate reply (the session is flagged),
\* never return replies that are equal case-insensitively.
C10_NoImmediateRepetition ==
  \A r1, r2 \in DOMAIN handlers :
    ( /\ handlers[r1].pc = "respond"
      /\ handlers[r2].pc = "respond"
      /\ handlers[r1].ret # "neutral"
      /\ handlers[r2].ret # "neutral"
      /\ handlers[r1].sid = handlers[r2].sid
      /\ handlers[r2].turn = handlers[r1].turn + 1 )
    => lower(handlers[r1].reply) # lower(handlers[r2].reply)

\* C11: the attempt a request is making is never beyond the size of the
\* credential pool, and with a pool of one credential no request waits to
\* retry.
C11_AttemptsWithinPool ==
  \A r \in DOMAIN handlers :
    /\ handlers[r].pc = "to_thread" => handlers[r].attempt + 1 <= Len(API_KEYS)
    /\ Len(API_KEYS) = 1 => handlers[r].pc # "sleep"

\* C12: a session that holds a phone number or a link, which a message of it
\* contained, is flagged.
C12_StructuralSignalFlags ==
  \A s \in DOMAIN active_sessions :
    \/ active_sessions[s].extractedIntelligence.phoneNumbers # <<>>
    \/ active_sessions[s].extractedIntelligence.phishingLinks # <<>>
    => active_sessions[s].is_scam

\* C13: when the send of a report fails, the task ends there: the report is
\* not sent again, and the sessions, the other requests with their replies and
\* the scheduled reports are as they were.
C13_SingleBestEffortSend ==
  [][\A r \in Reqs :
       post_returns(r, FALSE)
         => /\ handlers' = Remove(r)
            /\ UNCHANGED <<active_sessions, reports, msgs, CURRENT_KEY_INDEX,
                           ai_model>>]_vars

\* C13 witness: a report is being sent while a later request of the same
\* session holds the reply it is about to return.
C13_Witness ==
  \E r, q \in DOMAIN handlers :
    /\ handlers[r].pc = "posting"
    /\ handlers[q].pc = "respond"
    /\ handlers[q].sid = handlers[r].sid
    /\ handlers[q].reply # <<>>

\* C14: a request whose call failed transiently with more than one credential
\* advances the index by one modulo the pool size, and the retry it then
\* makes is made on the credential at the index, which is another one than
\* the credential of the call that just failed for it.
C14_RetryOnNextCredential ==
  [][\A r \in DOMAIN handlers :
       r \in DOMAIN handlers'
         => /\ ( /\ handlers[r].pc = "to_thread"
                 /\ handlers'[r].pc = "configuring" )
               => CURRENT_KEY_INDEX' = (CURRENT_KEY_INDEX + 1) % Len(API_KEYS)
            /\ ( /\ handlers[r].pc = "configuring"
                 /\ handlers'[r].pc = "to_thread" )
               => /\ handlers'[r].key = CURRENT_KEY_INDEX'
                  /\ handlers'[r].key # handlers[r].key]_vars

\* C15: when the backend returns a text that is empty, shorter than
\* MinReplyLen or equal, case-insensitively, to the last outbound text of the
\* history, the reply of the request is a line of FALLBACK_REPLIES that is not
\* equal, case-insensitively, to that last outbound text.
C15_DiscardedTextReplaced ==
  [][\A r \in DOMAIN handlers, raw \in BackendTexts, history \in Histories :
       ( /\ generate_content_returns(r, raw, history)
         /\ \/ strip(raw) = <<>>
            \/ Len(strip(raw)) < MinReplyLen
            \/ lower(strip(raw)) = lower(LastBotMsg(history)) )
       => /\ handlers'[r].pc = "respond"
          /\ handlers'[r].reply \in Range(FALLBACK_REPLIES)
          /\ lower(handlers'[r].reply) # lower(LastBotMsg(history))]_vars

\* C16: while a request of one session is inside generate_persona_reply
\* (awaiting the backend call, inside rotate_key and configure_ai, or awaiting
\* the sleep before a retry), a message of another session that the server
\* has room for can be accepted, and a request of another session that has
\* its reply can be answered.
C16_OtherSessionsNotBlocked ==
  \A r \in DOMAIN handlers :
    handlers[r].pc \in {"to_thread", "configuring", "sleep"}
      => /\ \A s \in Sids \ {handlers[r].sid} :
              ( /\ Len(handlers) + 1 \in Reqs
                /\ \E msg_text \in Texts : Usable(s, msg_text)
                /\ msgs[s] < MaxMsgs )
              => ENABLED (\E msg_text \in Texts :
                            handle_webhook(Len(handlers) + 1, s, msg_text,
                                           API_ACCESS_TOKEN))
         /\ \A q \in DOMAIN handlers :
              ( /\ handlers[q].sid # handlers[r].sid
                /\ handlers[q].pc = "respond" )
              => ENABLED send_response(q)

\* C17: a request that returns from generate_persona_reply schedules a report
\* exactly when it found new intel or the turn number it produced itself is a
\* multiple of ReportEvery.
C17_ReportDecisionOnOwnTurn ==
  [][\A r \in DOMAIN handlers :
       ( /\ handlers[r].pc \in {"to_thread", "configuring", "sleep"}
         /\ r \in DOMAIN handlers'
         /\ handlers'[r].pc = "respond" )
       => ( handlers'[r].report
            <=> \/ handlers[r].new_intel
                \/ handlers[r].turn % ReportEvery = 0 )]_vars

\* C18: the payload of every report being sent carries, as
\* totalMessagesExchanged, the session's turns as they were when the report
\* was scheduled.
C18_PayloadAsScheduled ==
  \A r \in DOMAIN handlers :
    handlers[r].pc = "posting" => handlers[r].total = handlers[r].sched_turns

\* C19: a session that is not flagged has no report scheduled, every request
\* of it returns the neutral line without a report, and a message handled on
\* it leaves the credential index and the model as they were; every report
\* that is about to be sent or being sent belongs to a flagged session.
C19_UnflaggedNeverReports ==
  /\ [](\A s \in DOMAIN active_sessions :
          ~active_sessions[s].is_scam
            => /\ reports[s] = 0
               /\ \A r \in DOMAIN handlers :
                    handlers[r].sid = s
                      => /\ handlers[r].pc = "respond"
                         /\ handlers[r].ret = "neutral"
                         /\ handlers[r].reply = NeutralReply
                         /\ ~handlers[r].report)
  /\ [](\A r \in DOMAIN handlers :
          handlers[r].pc \in {"report", "posting"}
            => active_sessions[handlers[r].sid].is_scam)
  /\ [][\A s \in DOMAIN active_sessions' :
          ~active_sessions'[s].is_scam /\ msgs'[s] # msgs[s]
            => UNCHANGED <<CURRENT_KEY_INDEX, ai_model>>]_vars

\* C19 witness: a session that holds a phone number has reached ReportEvery
\* turns unflagged, and its request of that turn returns the neutral line.
C19_Witness ==
  \E r \in DOMAIN handlers :
    /\ handlers[r].pc = "respond"
    /\ handlers[r].turn = ReportEvery
    /\ handlers[r].ret = "neutral"
    /\ ~active_sessions[handlers[r].sid].is_scam
    /\ active_sessions[handlers[r].sid].extractedIntelligence.phoneNumbers # <<>>
    /\ reports[handlers[r].sid] = 0

\* C20: with a non-empty pool the index is always a valid index of it; with a
\* pool of at most one credential a transient error leaves the index as it
\* was and rotate_key returns False, so the request waits to retry; and an
\* error that is not transient ends generate_persona_reply at that attempt
\* with a line of FALLBACK_REPLIES and leaves the index and the model alone.
C20_CredentialIndex ==
  /\ [](API_KEYS # <<>> => CURRENT_KEY_INDEX \in 0..(Len(API_KEYS) - 1))
  /\ [][\A r \in Reqs :
          ( /\ At(r, "to_thread")
            /\ r \in DOMAIN handlers'
            /\ handlers'[r].pc # "to_thread" )
          => \A e \in BackendErrors :
               generate_content_raises(r, e)
                 => IF IsTransient(e)
                    THEN Len(API_KEYS) <= 1
                           => /\ ~rotate_key(API_KEYS, CURRENT_KEY_INDEX).result
                              /\ CURRENT_KEY_INDEX' = CURRENT_KEY_INDEX
                              /\ handlers'[r].pc = "sleep"
                    ELSE /\ handlers'[r].pc = "respond"
                         /\ handlers'[r].ret = "exhausted"
                         /\ handlers'[r].reply \in Range(FALLBACK_REPLIES)
                         /\ UNCHANGED <<CURRENT_KEY_INDEX, ai_model>>]_vars

\* C20 witness: with two credentials the index has gone round to 0 again,
\* the model still being the one of the credential at index 1.
C20_Witness ==
  /\ Len(API_KEYS) = 2
  /\ CURRENT_KEY_INDEX = 0
  /\ ai_model.ready
  /\ ai_model.key = 1

============================================================================
